---- MODULE Spec2Model ----
(***************************************************************************)
(* Model of src/main.py: a news scraper that normalises article metadata   *)
(* from three sites and appends unseen rows to a spreadsheet.              *)
(*                                                                         *)
(* Text is modelled as a sequence of characters, each character a string.  *)
(* The module is ASCII only, so the Japanese characters of the source are  *)
(* named: "fun" (minute), "ji" "kan" (hour), "nichi" (day), "mae" (ago),   *)
(* "tei" "kyou" (provided), "hai" "shin" (delivered), "ni" "yo" "ru"       *)
(* (by), "gatsu" (month), and so on.                                       *)
(***************************************************************************)
EXTENDS Integers, Sequences, FiniteSets, TLC

VARIABLES
    store,          \* the spreadsheet: worksheet name -> [exists, rows]
    pc,             \* position of the caller of write_to_spreadsheet
    worksheet_name, \* argument of the running / last write_to_spreadsheet call
    articles,       \* argument of the running / last write_to_spreadsheet call
    attempt,        \* failed attempts of the running / last call (loop variable)
    status,         \* "idle" | "running" | "returned" | "raised"
    pre,            \* rows of the destination when the call began
    existing_urls,  \* the URL set read by the last successful attempt
    new_rows,       \* the rows appended by the last successful attempt
    prev_batch,     \* worksheet name -> batch of the last call that returned
    prev_same,      \* the running / last call repeats the previous batch
    calls,          \* harness: calls of write_to_spreadsheet made so far
    log,            \* main: the fetch and write events of the process
    clean_raw,      \* clean_source_text: the text given
    once,           \* clean_source_text(clean_raw)
    twice,          \* clean_source_text(clean_source_text(clean_raw))
    cstage,         \* how many times clean_source_text has been applied
    t_label,        \* parse_relative_time: the label given
    t_base,         \* parse_relative_time: the reference time given
    t_result,       \* parse_relative_time(t_label, t_base)
    tstage,         \* whether parse_relative_time has been applied
    x_site,         \* extractor: the site being scraped
    x_now,          \* extractor: the reference time captured at its start
    x_total,        \* extractor: the articles on the page
    cur,            \* extractor: the page fragment of the article handled last
    hist,           \* extractor: what became of each article handled so far
    data,           \* extractor: the records collected so far (the list data)
    returned        \* extractor: whether it has returned data

wvars == <<store, pc, worksheet_name, articles, attempt, status, pre,
           existing_urls, new_rows, prev_batch, prev_same, calls, log>>

cvars == <<clean_raw, once, twice, cstage>>

tvars == <<t_label, t_base, t_result, tstage>>

xvars == <<x_site, x_now, x_total, cur, hist, data, returned>>

vars == <<wvars, cvars, tvars, xvars>>

----------------------------------------------------------------------------
(* Bounds *)
MaxBatch == 2      \* longest candidate batch
MaxCalls == 3      \* harness: calls of write_to_spreadsheet

(* Program constants *)
MaxAttempts == 5   \* for attempt in range(5)

Sites == <<"Google", "Yahoo", "MSN">>
WorksheetNames == {"Google", "Yahoo", "MSN"}
Urls == {"u1", "u2"}
NoBatch == [has |-> FALSE, batch |-> <<>>]

\* An article record as the extractors build it (dict with four keys).
ArticleSet == [title : {"t"}, url : Urls, published_at : {"d"}, publisher : {"p"}]

RECURSIVE SeqsUpTo(_, _)
SeqsUpTo(S, n) ==
    IF n = 0 THEN {<<>>}
    ELSE LET shorter == SeqsUpTo(S, n - 1)
         IN  shorter \cup {Append(s, x) : s \in {t \in shorter : Len(t) = n - 1}, x \in S}

Batches == SeqsUpTo(ArticleSet, MaxBatch)

----------------------------------------------------------------------------
(* The store (gspread), as write_to_spreadsheet uses it *)

HeaderRow == <<"Title", "URL", "PostedAt", "Source">>

NoWorksheet == [exists |-> FALSE, rows |-> <<>>]

\* sh.add_worksheet(title=worksheet_name, rows="1", cols="4")
add_worksheet(st, name) == [st EXCEPT ![name] = [exists |-> TRUE, rows |-> <<>>]]

\* ws.append_row([...]) / ws.append_rows(new_rows, ...)
append_rows(st, name, rows) == [st EXCEPT ![name].rows = @ \o rows]

\* ws.get_all_values()
get_all_values(st, name) == st[name].rows

\* existing_urls = set(row[1] for row in existing[1:] if len(row) > 1)
ExistingUrls(existing) == {existing[i][2] : i \in 2..Len(existing)}

\* new_rows = [[a[title], a[url], a[date], a[source]] for a in articles
\*             if a[url] not in existing_urls]
RowOf(a) == <<a.title, a.url, a.published_at, a.publisher>>

RECURSIVE NewRowsDedup(_, _)
NewRowsDedup(arts, urls) ==
    IF arts = <<>> THEN <<>>
    ELSE IF Head(arts).url \in urls THEN NewRowsDedup(Tail(arts), urls)
    ELSE <<RowOf(Head(arts))>> \o NewRowsDedup(Tail(arts), urls \cup {Head(arts).url})

RECURSIVE NewRows(_, _)
NewRows(arts, urls) ==
    IF arts = <<>> THEN <<>>
    ELSE IF Head(arts).url \in urls THEN NewRows(Tail(arts), urls)
    ELSE <<RowOf(Head(arts))>> \o NewRows(Tail(arts), urls)

----------------------------------------------------------------------------
(* write_to_spreadsheet: one action per attempt of the retry loop.  The    *)
(* attempt either runs to its return  or stops at the store call that       *)
(* raises APIError; a call that raises leaves the store as it was.         *)

FailPoints == {"open_by_key", "worksheet", "add_worksheet", "append_row",
               "get_all_values", "append_rows"}

\* The store after the worksheet lookup / creation part of an attempt (lines
\* 405-409) that stops at fail point f ("none": does not stop).
AfterLookup(st, name, f) ==
    IF st[name].exists \/ f \in {"open_by_key", "worksheet", "add_worksheet"}
    THEN st
    ELSE IF f = "append_row" THEN add_worksheet(st, name)
    ELSE append_rows(add_worksheet(st, name), name, <<HeaderRow>>)

\* Which fail points the attempt can reach in this state.
Reaches(st, name, arts, f) ==
    CASE f \in {"open_by_key", "worksheet", "get_all_values"} -> TRUE
      [] f \in {"add_worksheet", "append_row"} -> ~st[name].exists
      [] f = "append_rows" ->
            NewRows(arts, ExistingUrls(get_all_values(AfterLookup(st, name, f), name))) # <<>>

\* Where the caller continues after the call returns.
NextPc(p) ==
    CASE p = "google_write" -> "yahoo_fetch"
      [] p = "yahoo_write" -> "msn_fetch"
      [] p = "msn_write" -> "done"
      [] OTHER -> p

RaisedPcSwallowed(p) == NextPc(p)

\* Where the caller ends when the call raises RuntimeError: main does not
\* catch it, the process fails; the harness notes it and goes on.
RaisedPc(p) == IF p = "harness" THEN p ELSE "failed"

AttemptBudgetSix == MaxAttempts + 1

\* range(5): the loop ends after the fifth failed attempt.
AttemptBudget == MaxAttempts

\* An attempt that runs to the return statement (lines 404-422).
AttemptSucceeds ==
    /\ status = "running"
    /\ LET st1 == AfterLookup(store, worksheet_name, "none")
           existing == get_all_values(st1, worksheet_name)
           urls == ExistingUrls(existing)
           rows == NewRows(articles, urls)
       IN  /\ store' = append_rows(st1, worksheet_name, rows)
           /\ existing_urls' = urls
           /\ new_rows' = rows
    /\ status' = "returned"
    /\ prev_batch' = [prev_batch EXCEPT ![worksheet_name] = [has |-> TRUE, batch |-> articles]]
    /\ pc' = NextPc(pc)
    /\ log' = IF pc = "harness" THEN log ELSE Append(log, <<"write_end", worksheet_name>>)
    /\ UNCHANGED <<worksheet_name, articles, attempt, pre, prev_same, calls, cvars, tvars, xvars>>

\* An attempt that ends in APIError at fail point f (lines 423-425), and
\* the raise after the last one (line 427).
AttemptFails(f) ==
    /\ status = "running"
    /\ Reaches(store, worksheet_name, articles, f)
    /\ store' = AfterLookup(store, worksheet_name, f)
    /\ attempt' = attempt + 1
    /\ IF attempt + 1 >= AttemptBudget
       THEN /\ status' = "raised"
            /\ pc' = RaisedPc(pc)
            /\ log' = IF pc = "harness" THEN log
                      ELSE Append(log, <<"write_raise", worksheet_name>>)
       ELSE UNCHANGED <<status, pc, log>>
    /\ UNCHANGED <<worksheet_name, articles, pre, existing_urls, new_rows,
                   prev_batch, prev_same, calls, cvars, tvars, xvars>>

\* Entry of write_to_spreadsheet(articles, spreadsheet_id, worksheet_name).
Call(batch, name, nextpc) ==
    /\ worksheet_name' = name
    /\ articles' = batch
    /\ attempt' = 0
    /\ status' = "running"
    /\ pre' = store[name].rows
    /\ prev_same' = (prev_batch[name].has /\ prev_batch[name].batch = batch)
    /\ pc' = nextpc
    /\ UNCHANGED <<store, existing_urls, new_rows, prev_batch, cvars, tvars, xvars>>

----------------------------------------------------------------------------
(* A caller that calls write_to_spreadsheet again and again on one         *)
(* destination, as successive runs of the program do.                      *)

HarnessCall(batch) ==
    /\ pc = "harness"
    /\ status # "running"
    /\ calls < MaxCalls
    /\ calls' = calls + 1
    /\ Call(batch, "Google", "harness")
    /\ UNCHANGED log

InitCommon ==
    /\ store = [n \in WorksheetNames |-> NoWorksheet]
    /\ worksheet_name = "Google"
    /\ articles = <<>>
    /\ attempt = 0
    /\ status = "idle"
    /\ pre = <<>>
    /\ existing_urls = {}
    /\ new_rows = <<>>
    /\ prev_batch = [n \in WorksheetNames |-> NoBatch]
    /\ prev_same = FALSE
    /\ calls = 0
    /\ log = <<>>

\* The variables of clean_source_text when it is not under check.
CleanIdle == clean_raw = <<>> /\ once = <<>> /\ twice = <<>> /\ cstage = 0

\* The variables of parse_relative_time when it is not under check.
TimeIdle == t_label = <<>> /\ t_base = 0 /\ t_result = <<>> /\ tstage = 0

\* The variables of the extractors when they are not under check.
ExtractIdle ==
    /\ x_site = "none" /\ x_now = 0 /\ x_total = 0 /\ cur = [none |-> TRUE]
    /\ hist = <<>> /\ data = <<>> /\ returned = FALSE

InitWrite == InitCommon /\ pc = "harness" /\ CleanIdle /\ TimeIdle /\ ExtractIdle

NextWrite ==
    \/ \E batch \in Batches : HarnessCall(batch)
    \/ AttemptSucceeds
    \/ \E f \in FailPoints : AttemptFails(f)

SpecWrite == InitWrite /\ [][NextWrite]_vars

----------------------------------------------------------------------------
(* __main__: the three site pipelines, one after the other.  The batch a   *)
(* site extractor returns depends on the page; any batch may come back.    *)

\* google_news_articles = get_google_news_with_selenium(keyword)
\* if google_news_articles: write_to_spreadsheet(..., "Google")
SiteStep(site, fetchpc, writepc, skippc, batch) ==
    /\ pc = fetchpc
    /\ IF batch # <<>>
       THEN /\ Call(batch, site, writepc)
            /\ log' = log \o <<(<<"fetch", site>>), (<<"write_begin", site>>)>>
       ELSE /\ pc' = skippc
            /\ log' = Append(log, <<"fetch", site>>)
            /\ UNCHANGED <<store, worksheet_name, articles, attempt, status, pre,
                           existing_urls, new_rows, prev_batch, prev_same, cvars, tvars, xvars>>
    /\ UNCHANGED calls

GoogleSite(batch) == SiteStep("Google", "google_fetch", "google_write", "yahoo_fetch", batch)

YahooSite(batch) == SiteStep("Yahoo", "yahoo_fetch", "yahoo_write", "msn_fetch", batch)

MsnSite(batch) == SiteStep("MSN", "msn_fetch", "msn_write", "done", batch)

Init == InitCommon /\ pc = "google_fetch" /\ CleanIdle /\ TimeIdle /\ ExtractIdle

Next ==
    \/ \E batch \in Batches : GoogleSite(batch)
    \/ \E batch \in Batches : YahooSite(batch)
    \/ \E batch \in Batches : MsnSite(batch)
    \/ AttemptSucceeds
    \/ \E f \in FailPoints : AttemptFails(f)

Spec == Init /\ [][Next]_vars

----------------------------------------------------------------------------
(* Text: sequences of characters, and the regular expressions of the       *)
(* source as matchers.  A matcher takes a text and a start index and       *)
(* gives the index after the match, or 0 when there is no match there.     *)

Digits == {"0", "1", "2", "3", "4", "5", "6", "7", "8", "9"}

Spaces == {" ", "\t", "\n"}

\* Characters that are not word characters (\w) and not white space.
Punct == {"!", "#", "%", "&", "(", ")", "*", "+", ",", "-", ".", "/", ":",
          ";", "<", "=", ">", "?", "@", "[", "]", "|",
          "nakaguro", "bullet", "middot", "endash", "emdash", "fullcolon",
          "fullparen", "fullparen_close"}

UpperCase == <<"A", "B", "C", "D", "E", "F", "G", "H", "I", "J", "K", "L", "M",
               "N", "O", "P", "Q", "R", "S", "T", "U", "V", "W", "X", "Y", "Z">>

LowerCase == <<"a", "b", "c", "d", "e", "f", "g", "h", "i", "j", "k", "l", "m",
               "n", "o", "p", "q", "r", "s", "t", "u", "v", "w", "x", "y", "z">>

IsDigit(c) == c \in Digits

IsSpace(c) == c \in Spaces

\* str.lower()
LowerText(t) ==
    [i \in 1..Len(t) |->
        IF \E k \in 1..Len(UpperCase) : UpperCase[k] = t[i]
        THEN LowerCase[CHOOSE k \in 1..Len(UpperCase) : UpperCase[k] = t[i]]
        ELSE t[i]]

DigitVal(c) ==
    CASE c = "0" -> 0 [] c = "1" -> 1 [] c = "2" -> 2 [] c = "3" -> 3 [] c = "4" -> 4
      [] c = "5" -> 5 [] c = "6" -> 6 [] c = "7" -> 7 [] c = "8" -> 8 [] c = "9" -> 9

\* int() of a text of digits
RECURSIVE IntOf(_)
IntOf(t) == IF t = <<>> THEN 0 ELSE 10 * IntOf(SubSeq(t, 1, Len(t) - 1)) + DigitVal(t[Len(t)])

\* \s* and \d* from index i: the index of the first character that is not one
RECURSIVE SkipSpaces(_, _)
SkipSpaces(t, i) == IF i <= Len(t) /\ IsSpace(t[i]) THEN SkipSpaces(t, i + 1) ELSE i

RECURSIVE SkipDigits(_, _)
SkipDigits(t, i) == IF i <= Len(t) /\ IsDigit(t[i]) THEN SkipDigits(t, i + 1) ELSE i

\* the literal lit at index i
LitEnd(t, i, lit) ==
    IF i >= 1 /\ i + Len(lit) - 1 <= Len(t) /\ SubSeq(t, i, i + Len(lit) - 1) = lit
    THEN i + Len(lit) ELSE 0

\* pat in t
Contains(t, lit) == \E i \in 1..Len(t) : LitEnd(t, i, lit) # 0

\* str.strip(): white space off both ends
RECURSIVE StripEnd(_, _)
StripEnd(t, chars) ==
    IF t # <<>> /\ t[Len(t)] \in chars THEN StripEnd(SubSeq(t, 1, Len(t) - 1), chars) ELSE t

RECURSIVE StripStart(_, _)
StripStart(t, chars) ==
    IF t # <<>> /\ Head(t) \in chars THEN StripStart(Tail(t), chars) ELSE t

StripChars(t, chars) == StripStart(StripEnd(t, chars), chars)

Strip(t) == StripChars(t, Spaces)

\* the first index >= i of a character of chars, Len(t) + 1 if none
RECURSIVE Find(_, _, _)
Find(t, chars, i) == IF i <= Len(t) /\ t[i] \notin chars THEN Find(t, chars, i + 1) ELSE i

\* the last index of a character of chars before index i, 0 if none
RECURSIVE FindBack(_, _, _)
FindBack(t, chars, i) == IF i >= 1 /\ t[i] \notin chars THEN FindBack(t, chars, i - 1) ELSE i

StartsWith(t, lit) == LitEnd(t, 1, lit) # 0

EndsWith(t, lit) == LitEnd(t, Len(t) - Len(lit) + 1, lit) # 0

\* \d+\s*(minute|hour|day) from index i; the units are "fun" | "ji" "kan" | "nichi"
NumberUnitEnd(t, i) ==
    LET u == SkipSpaces(t, SkipDigits(t, i))
    IN  IF ~(i <= Len(t) /\ IsDigit(t[i])) THEN 0
        ELSE IF LitEnd(t, u, <<"fun">>) # 0 THEN u + 1
        ELSE IF LitEnd(t, u, <<"ji", "kan">>) # 0 THEN u + 2
        ELSE IF LitEnd(t, u, <<"nichi">>) # 0 THEN u + 1
        ELSE 0

\* TIME_RE = (\d+)\s*(unit)\s*mae
TimeReEnd(t, i) ==
    LET u == NumberUnitEnd(t, i)
    IN  IF u = 0 THEN 0 ELSE LitEnd(t, SkipSpaces(t, u), <<"mae">>)

\* \s*\d+\s*(unit)\s*(mae|)?\s*$ from index i: does it match up to the end
TimeToEndAt(t, i) ==
    LET u == NumberUnitEnd(t, SkipSpaces(t, i))
        d == SkipSpaces(t, u)
    IN  /\ u # 0
        /\ \/ d = Len(t) + 1
           \/ LitEnd(t, d, <<"mae">>) # 0 /\ SkipSpaces(t, d + 1) = Len(t) + 1

\* TIME_ONLY_RE.match(t)
TimeOnlyMatch(t) == TimeToEndAt(t, 1)

\* TIME_RE.search(t)
TimeReSearch(t) == \E i \in 1..Len(t) : TimeReEnd(t, i) # 0

\* \bon\s+MSN\b, ignoring case; \b is where a word character (not white
\* space, not punctuation) meets one that is not, or an end of the text
OnMsnEnd(t, i) ==
    LET low == LowerText(t)
        sp == SkipSpaces(t, i + 2)
        e == LitEnd(low, sp, <<"m", "s", "n">>)
    IN  IF /\ LitEnd(low, i, <<"o", "n">>) # 0
           /\ (i = 1 \/ t[i - 1] \in (Spaces \cup Punct))
           /\ sp > i + 2
           /\ e # 0
           /\ (e = Len(t) + 1 \/ t[e] \in (Spaces \cup Punct))
        THEN e ELSE 0

\* MSN\s*(ni yo ru hai shin)
MsnDeliveryEnd(t, i) ==
    IF LitEnd(t, i, <<"M", "S", "N">>) # 0
    THEN LitEnd(t, SkipSpaces(t, i + 3), <<"ni", "yo", "ru", "hai", "shin">>)
    ELSE 0

\* (tei kyou|hai shin)\s*[:fullcolon]?
AttributionEnd(t, i) ==
    IF LitEnd(t, i, <<"tei", "kyou">>) # 0 \/ LitEnd(t, i, <<"hai", "shin">>) # 0
    THEN LET sp == SkipSpaces(t, i + 2)
         IN  IF sp <= Len(t) /\ t[sp] \in {":", "fullcolon"} THEN sp + 1 ELSE sp
    ELSE 0

\* \s{2,}
SpaceRunEnd(t, i) ==
    LET e == SkipSpaces(t, i) IN IF e >= i + 2 THEN e ELSE 0

\* \d{1,2} and then the character ch
DigitsThenEnd(t, i, ch) ==
    IF i >= 1 /\ i + 2 <= Len(t) /\ IsDigit(t[i]) /\ IsDigit(t[i + 1]) /\ t[i + 2] = ch THEN i + 3
    ELSE IF i >= 1 /\ i + 1 <= Len(t) /\ IsDigit(t[i]) /\ t[i + 1] = ch THEN i + 2
    ELSE 0

\* \d{4}/\d{1,2}/\d{1,2} \d{2}:\d{2}
YahooDateTimeEnd(t, i) ==
    LET m == DigitsThenEnd(t, i + 5, "/")
        d == DigitsThenEnd(t, m, " ")
    IN  IF /\ i + 4 <= Len(t)
           /\ \A k \in i..(i + 3) : IsDigit(t[k])
           /\ t[i + 4] = "/"
           /\ m # 0
           /\ d # 0
           /\ d + 4 <= Len(t)
           /\ IsDigit(t[d]) /\ IsDigit(t[d + 1]) /\ t[d + 2] = ":"
           /\ IsDigit(t[d + 3]) /\ IsDigit(t[d + 4])
        THEN d + 5 ELSE 0

\* \([^)]+\)
ParensEnd(t, i) ==
    LET c == Find(t, {")"}, i + 1)
    IN  IF LitEnd(t, i, <<"(">>) # 0 /\ c <= Len(t) /\ c > i + 1 THEN c + 1 ELSE 0

\* \([day of the week]\)
WeekdayParensEnd(t, i) ==
    IF /\ i + 2 <= Len(t)
       /\ t[i] = "("
       /\ t[i + 1] \in {"gatsu", "kayou", "sui", "moku", "kin", "do", "nichi"}
       /\ t[i + 2] = ")"
    THEN i + 3 ELSE 0

MatchEnd(re, t, i) ==
    CASE re = "on_msn" -> OnMsnEnd(t, i)
      [] re = "yahoo_datetime" -> YahooDateTimeEnd(t, i)
      [] re = "parens" -> ParensEnd(t, i)
      [] re = "weekday_parens" -> WeekdayParensEnd(t, i)
      [] re = "msn_delivery" -> MsnDeliveryEnd(t, i)
      [] re = "attribution" -> AttributionEnd(t, i)
      [] re = "time_re" -> TimeReEnd(t, i)
      [] re = "space_run" -> SpaceRunEnd(t, i)

\* re.sub(re, repl, t): every match, leftmost first, replaced by repl
RECURSIVE SubFrom(_, _, _, _)
SubFrom(re, repl, t, i) ==
    IF i > Len(t) THEN <<>>
    ELSE LET e == MatchEnd(re, t, i)
         IN  IF e # 0 THEN repl \o SubFrom(re, repl, t, e)
             ELSE <<t[i]>> \o SubFrom(re, repl, t, i + 1)

Sub(re, repl, t) == SubFrom(re, repl, t, 1)

\* t.replace(c, " ") for each c of chars
ReplaceChars(t, chars) == [i \in 1..Len(t) |-> IF t[i] \in chars THEN " " ELSE t[i]]

\* re.sub(r"\s*\d+\s*(unit)\s*(mae|)?\s*$", "", t): the leftmost match that
\* reaches the end is cut off
CutTrailingTime(t) ==
    IF \E i \in 1..Len(t) : TimeToEndAt(t, i)
    THEN SubSeq(t, 1, (CHOOSE i \in 1..Len(t) :
                          /\ TimeToEndAt(t, i)
                          /\ \A j \in 1..(i - 1) : ~TimeToEndAt(t, j)) - 1)
    ELSE t

\* \s*\(\s*\)\s*$ from index i
EmptyParensToEndAt(t, i) ==
    LET a == SkipSpaces(t, i)
        b == SkipSpaces(t, a + 1)
    IN  /\ LitEnd(t, a, <<"(">>) # 0
        /\ LitEnd(t, b, <<")">>) # 0
        /\ SkipSpaces(t, b + 1) = Len(t) + 1

CutTrailingEmptyParens(t) ==
    IF \E i \in 1..Len(t) : EmptyParensToEndAt(t, i)
    THEN SubSeq(t, 1, (CHOOSE i \in 1..Len(t) :
                          /\ EmptyParensToEndAt(t, i)
                          /\ \A j \in 1..(i - 1) : ~EmptyParensToEndAt(t, j)) - 1)
    ELSE t

----------------------------------------------------------------------------
(* clean_source_text and is_timeish *)

CleanStep1(raw) == Sub("on_msn", <<>>, Strip(raw))
CleanStep2(raw) == Sub("msn_delivery", <<>>, CleanStep1(raw))
CleanStep3(raw) == Sub("attribution", <<>>, CleanStep2(raw))
CleanStep4(raw) == ReplaceChars(CleanStep3(raw), {"nakaguro", "bullet", "middot"})
CleanStep5(raw) == Strip(CutTrailingTime(CleanStep4(raw)))
CleanStep6(raw) == Strip(Sub("time_re", <<>>, CleanStep5(raw)))
CleanStep7(raw) == Strip(CutTrailingEmptyParens(CleanStep6(raw)))
CleanStep8(raw) == Strip(Sub("space_run", <<" ">>, CleanStep7(raw)))
\* t.strip("nakaguro|bullet|middot|-endash emdash:fullcolon").strip()
CleanStep9(raw) ==
    Strip(StripChars(CleanStep8(raw),
                     {"nakaguro", "|", "bullet", "middot", "-", "endash", "emdash", ":", "fullcolon"}))

\* if TIME_ONLY_RE.match(t): return ""; return t
DropTimeOnly(t) == IF TimeOnlyMatch(t) THEN <<>> ELSE t

clean_source_text(raw) ==
    IF raw = <<>> THEN <<>> ELSE DropTimeOnly(CleanStep9(raw))

is_timeish(text) ==
    IF text = <<>> THEN FALSE
    ELSE IF TimeOnlyMatch(Strip(text)) THEN TRUE
    ELSE TimeReSearch(text)

----------------------------------------------------------------------------
(* Dates and times.  A datetime is a number of seconds since 1970-01-01    *)
(* 00:00:00 on the naive local clock; microseconds are left out (they      *)
(* order like seconds and are dropped by format_datetime).                 *)

SecondsPerDay == 86400

\* datetime's proleptic Gregorian calendar: day number -> <<year, month, day>>
CivilFromDays(days) ==
    LET z == days + 719468
        era == z \div 146097
        doe == z - era * 146097
        yoe == (doe - doe \div 1460 + doe \div 36524 - doe \div 146096) \div 365
        doy == doe - (365 * yoe + yoe \div 4 - yoe \div 100)
        mp == (5 * doy + 2) \div 153
        d == doy - (153 * mp + 2) \div 5 + 1
        m == IF mp < 10 THEN mp + 3 ELSE mp - 9
        y == yoe + era * 400 + (IF m <= 2 THEN 1 ELSE 0)
    IN  <<y, m, d>>

\* <<year, month, day>> -> day number
DaysFromCivil(y0, m, d) ==
    LET y == IF m <= 2 THEN y0 - 1 ELSE y0
        era == y \div 400
        yoe == y - era * 400
        mp == IF m > 2 THEN m - 3 ELSE m + 9
        doy == (153 * mp + 2) \div 5 + d - 1
        doe == yoe * 365 + yoe \div 4 - yoe \div 100 + doy
    IN  era * 146097 + doe - 719468

DaysInMonth(y, m) ==
    IF m = 2 THEN (IF (y % 4 = 0 /\ y % 100 # 0) \/ y % 400 = 0 THEN 29 ELSE 28)
    ELSE IF m \in {4, 6, 9, 11} THEN 30 ELSE 31

\* datetime(y, m, d, H, M): raises ValueError outside the calendar
ValidDate(y, m, d) == y \in 1..9999 /\ m \in 1..12 /\ d \in 1..DaysInMonth(y, m)

DateTime(y, m, d, H, M) == DaysFromCivil(y, m, d) * SecondsPerDay + H * 3600 + M * 60

\* "%0wd" % n
RECURSIVE Pad(_, _)
Pad(n, w) == IF w = 0 THEN <<>> ELSE Pad(n \div 10, w - 1) \o <<CHOOSE c \in Digits : DigitVal(c) = n % 10>>

\* dt_obj.strftime("%Y/%m/%d %H:%M")
format_datetime(dt_obj) ==
    LET days == dt_obj \div SecondsPerDay
        sod == dt_obj % SecondsPerDay
        ymd == CivilFromDays(days)
    IN  Pad(ymd[1], 4) \o <<"/">> \o Pad(ymd[2], 2) \o <<"/">> \o Pad(ymd[3], 2)
        \o <<" ">> \o Pad(sod \div 3600, 2) \o <<":">> \o Pad((sod % 3600) \div 60, 2)

\* The sentinel "could not be determined" (four characters)
Sentinel == <<"shu", "toku", "fu", "ka">>

\* One numeric field of strptime at index i: the digits up to the next
\* character that is not one; the directive accepts 1..maxlen digits with a
\* value in lo..hi (%Y: exactly four digits).
FieldEnd(t, i) == SkipDigits(t, i)

FieldVal(t, i) == IntOf(SubSeq(t, i, FieldEnd(t, i) - 1))

FieldOk(t, i, minlen, maxlen, lo, hi) ==
    /\ i >= 1
    /\ FieldEnd(t, i) - i \in minlen..maxlen
    /\ FieldVal(t, i) \in lo..hi

\* The %d directive also accepts a space and one digit 1-9.
DayPadded(t, i) == i >= 1 /\ i < Len(t) /\ t[i] = " " /\ t[i + 1] \in (Digits \ {"0"})

DayStart(t, i) == IF DayPadded(t, i) THEN i + 1 ELSE i

DayOk(t, i) == FieldOk(t, DayStart(t, i), 1, IF DayPadded(t, i) THEN 1 ELSE 2, 1, 31)

DayEnd(t, i) == FieldEnd(t, DayStart(t, i))

DayVal(t, i) == FieldVal(t, DayStart(t, i))

Fail == [ok |-> FALSE, dt |-> 0]

\* datetime.strptime(t, "%H:%M").time(): seconds after midnight
StrptimeHM(t) ==
    LET c == FieldEnd(t, 1)
    IN  IF /\ FieldOk(t, 1, 1, 2, 0, 23)
           /\ LitEnd(t, c, <<":">>) # 0
           /\ FieldOk(t, c + 1, 1, 2, 0, 59)
           /\ FieldEnd(t, c + 1) = Len(t) + 1
        THEN [ok |-> TRUE, dt |-> FieldVal(t, 1) * 3600 + FieldVal(t, c + 1) * 60]
        ELSE Fail

\* datetime.strptime(t, "%Y/%m/%d")
StrptimeYMD(t) ==
    LET a == FieldEnd(t, 1)
        b == FieldEnd(t, a + 1)
    IN  IF /\ FieldOk(t, 1, 4, 4, 0, 9999)
           /\ LitEnd(t, a, <<"/">>) # 0
           /\ FieldOk(t, a + 1, 1, 2, 1, 12)
           /\ LitEnd(t, b, <<"/">>) # 0
           /\ FieldOk(t, b + 1, 1, 2, 1, 31)
           /\ FieldEnd(t, b + 1) = Len(t) + 1
           /\ ValidDate(FieldVal(t, 1), FieldVal(t, a + 1), FieldVal(t, b + 1))
        THEN [ok |-> TRUE,
              dt |-> DateTime(FieldVal(t, 1), FieldVal(t, a + 1), FieldVal(t, b + 1), 0, 0)]
        ELSE Fail

\* datetime.strptime(t, "%m gatsu %d nichi").replace(year=year): strptime
\* builds the date in its default year 1900 first
StrptimeMonthDay(t, year) ==
    LET a == FieldEnd(t, 1)
        b == FieldEnd(t, a + 1)
    IN  IF /\ FieldOk(t, 1, 1, 2, 1, 12)
           /\ LitEnd(t, a, <<"gatsu">>) # 0
           /\ FieldOk(t, a + 1, 1, 2, 1, 31)
           /\ LitEnd(t, b, <<"nichi">>) = Len(t) + 1
           /\ ValidDate(1900, FieldVal(t, 1), FieldVal(t, a + 1))
           /\ ValidDate(year, FieldVal(t, 1), FieldVal(t, a + 1))
        THEN [ok |-> TRUE, dt |-> DateTime(year, FieldVal(t, 1), FieldVal(t, a + 1), 0, 0)]
        ELSE Fail

\* \s+ of a strptime format from index i: the index after it, 0 if none
SpacesEnd(t, i) == IF i >= 1 /\ SkipSpaces(t, i) > i THEN SkipSpaces(t, i) ELSE 0

\* datetime.strptime(t, "%Y/%m/%d %H:%M")
StrptimeYMDHM(t) ==
    LET a == FieldEnd(t, 1)
        b == FieldEnd(t, a + 1)
        c == DayEnd(t, b + 1)
        h == SpacesEnd(t, c)
        e == FieldEnd(t, h)
    IN  IF /\ FieldOk(t, 1, 4, 4, 0, 9999)
           /\ LitEnd(t, a, <<"/">>) # 0
           /\ FieldOk(t, a + 1, 1, 2, 1, 12)
           /\ LitEnd(t, b, <<"/">>) # 0
           /\ DayOk(t, b + 1)
           /\ h # 0
           /\ FieldOk(t, h, 1, 2, 0, 23)
           /\ LitEnd(t, e, <<":">>) # 0
           /\ FieldOk(t, e + 1, 1, 2, 0, 59)
           /\ FieldEnd(t, e + 1) = Len(t) + 1
           /\ ValidDate(FieldVal(t, 1), FieldVal(t, a + 1), DayVal(t, b + 1))
        THEN [ok |-> TRUE,
              dt |-> DateTime(FieldVal(t, 1), FieldVal(t, a + 1), DayVal(t, b + 1),
                              FieldVal(t, h), FieldVal(t, e + 1))]
        ELSE Fail

\* datetime.strptime(t, "%Y-%m-%dT%H:%M:%SZ")
StrptimeIso(t) ==
    LET a == FieldEnd(t, 1)
        b == FieldEnd(t, a + 1)
        c == DayEnd(t, b + 1)
        e == FieldEnd(t, c + 1)
        f == FieldEnd(t, e + 1)
        g == FieldEnd(t, f + 1)
    IN  IF /\ FieldOk(t, 1, 4, 4, 0, 9999)
           /\ LitEnd(t, a, <<"-">>) # 0
           /\ FieldOk(t, a + 1, 1, 2, 1, 12)
           /\ LitEnd(t, b, <<"-">>) # 0
           /\ DayOk(t, b + 1)
           /\ (LitEnd(t, c, <<"T">>) # 0 \/ LitEnd(t, c, <<"t">>) # 0)
           /\ FieldOk(t, c + 1, 1, 2, 0, 23)
           /\ LitEnd(t, e, <<":">>) # 0
           /\ FieldOk(t, e + 1, 1, 2, 0, 59)
           /\ LitEnd(t, f, <<":">>) # 0
           /\ FieldOk(t, f + 1, 1, 2, 0, 59)
           /\ (LitEnd(t, g, <<"Z">>) = Len(t) + 1 \/ LitEnd(t, g, <<"z">>) = Len(t) + 1)
           /\ ValidDate(FieldVal(t, 1), FieldVal(t, a + 1), DayVal(t, b + 1))
        THEN [ok |-> TRUE,
              dt |-> DateTime(FieldVal(t, 1), FieldVal(t, a + 1), DayVal(t, b + 1),
                              FieldVal(t, c + 1), FieldVal(t, e + 1)) + FieldVal(t, f + 1)]
        ELSE Fail

----------------------------------------------------------------------------
(* parse_relative_time and get_last_modified_datetime *)

\* re.search(r"(\d+)", t): the first run of digits, as a number; -1 if none
FirstNumber(t) ==
    IF \E i \in 1..Len(t) : IsDigit(t[i])
    THEN FieldVal(t, CHOOSE i \in 1..Len(t) : IsDigit(t[i]) /\ \A j \in 1..(i - 1) : ~IsDigit(t[j]))
    ELSE -1

\* re.match(r'\d+ gatsu \d+ nichi', t)
MatchMonthDay(t) ==
    LET a == SkipDigits(t, 1)
        b == SkipDigits(t, a + 1)
    IN  a > 1 /\ LitEnd(t, a, <<"gatsu">>) # 0 /\ b > a + 1 /\ LitEnd(t, b, <<"nichi">>) # 0

\* re.match(r'\d{4}/\d{1,2}/\d{1,2}', t)
MatchYMD(t) ==
    /\ Len(t) >= 4 /\ \A i \in 1..4 : IsDigit(t[i])
    /\ LitEnd(t, 5, <<"/">>) # 0
    /\ \/ Len(t) >= 8 /\ IsDigit(t[6]) /\ t[7] = "/" /\ IsDigit(t[8])
       \/ Len(t) >= 9 /\ IsDigit(t[6]) /\ IsDigit(t[7]) /\ t[8] = "/" /\ IsDigit(t[9])

\* re.match(r'\d{1,2}:\d{2}', t)
MatchHM(t) ==
    \/ Len(t) >= 4 /\ IsDigit(t[1]) /\ t[2] = ":" /\ IsDigit(t[3]) /\ IsDigit(t[4])
    \/ Len(t) >= 5 /\ IsDigit(t[1]) /\ IsDigit(t[2]) /\ t[3] = ":" /\ IsDigit(t[4]) /\ IsDigit(t[5])

\* datetime.combine(base_time.date(), t)
Combine(base_time, t) == (base_time \div SecondsPerDay) * SecondsPerDay + t

\* the same with >= for >
RollBackOnEqual(dt, base_time) == IF dt >= base_time THEN dt - SecondsPerDay ELSE dt

\* if dt > base_time: dt -= timedelta(days=1)
RollBack(dt, base_time) == IF dt > base_time THEN dt - SecondsPerDay ELSE dt

Relative(label, base_time, unit) ==
    IF FirstNumber(label) >= 0
    THEN format_datetime(base_time - FirstNumber(label) * unit)
    ELSE Sentinel

\* The try block of parse_relative_time on the stripped, lower-cased label;
\* a branch that raises falls to the sentinel.
ParseLabel(label, base_time) ==
    IF Contains(label, <<"fun", "mae">>) \/ Contains(label, <<"m", "i", "n", "u", "t", "e">>)
    THEN Relative(label, base_time, 60)
    ELSE IF Contains(label, <<"ji", "kan", "mae">>) \/ Contains(label, <<"h", "o", "u", "r">>)
    THEN Relative(label, base_time, 3600)
    ELSE IF Contains(label, <<"nichi", "mae">>) \/ Contains(label, <<"d", "a", "y">>)
    THEN Relative(label, base_time, SecondsPerDay)
    ELSE IF MatchMonthDay(label)
    THEN IF StrptimeMonthDay(label, CivilFromDays(base_time \div SecondsPerDay)[1]).ok
         THEN format_datetime(StrptimeMonthDay(label, CivilFromDays(base_time \div SecondsPerDay)[1]).dt)
         ELSE Sentinel
    ELSE IF MatchYMD(label)
    THEN IF StrptimeYMD(label).ok THEN format_datetime(StrptimeYMD(label).dt) ELSE Sentinel
    ELSE IF MatchHM(label)
    THEN IF StrptimeHM(label).ok
         THEN format_datetime(RollBack(Combine(base_time, StrptimeHM(label).dt), base_time))
         ELSE Sentinel
    ELSE Sentinel

parse_relative_time(pub_label, base_time) ==
    IF pub_label = <<>> THEN Sentinel
    ELSE ParseLabel(LowerText(Strip(pub_label)), base_time)

\* get_last_modified_datetime(url): the HEAD request gives a Last-Modified
\* date (UTC seconds), res.ok, or fails / has none / has one that does not parse.
get_last_modified_datetime(res) ==
    IF res.ok THEN format_datetime(res.dt + 9 * 3600) ELSE Sentinel

----------------------------------------------------------------------------
(* urlparse(url).netloc and publisher_from_url *)

Letters == {UpperCase[i] : i \in 1..Len(UpperCase)} \cup {LowerCase[i] : i \in 1..Len(LowerCase)}

\* urlsplit: the text after "scheme:" (the whole text when it has no scheme)
AfterScheme(url) ==
    LET c == Find(url, {":"}, 1)
    IN  IF /\ c <= Len(url) /\ c > 1
           /\ url[1] \in Letters
           /\ \A i \in 1..(c - 1) : url[i] \in (Letters \cup Digits \cup {"+", "-", "."})
        THEN SubSeq(url, c + 1, Len(url))
        ELSE url

\* urlparse(url).netloc; ok is FALSE where urlsplit raises ValueError (a
\* netloc with a square bracket; IPv6 literals are left out of the model).
\* urlsplit drops leading white space first.
Netloc(url) ==
    LET rest == AfterScheme(StripStart(url, Spaces))
        n == IF StartsWith(rest, <<"/", "/">>)
             THEN SubSeq(rest, 3, Find(rest, {"/", "?", "#"}, 3) - 1)
             ELSE <<>>
    IN  [ok |-> ~Contains(n, <<"[">>) /\ ~Contains(n, <<"]">>), netloc |-> n]

\* NAME_MAP: host -> display name (the Japanese names spelled in syllables)
NameMapHosts ==
    <<  <<"r", "e", "s", "p", "o", "n", "s", "e", ".", "j", "p">>,
        <<"n", "e", "w", "s", "w", "e", "e", "k", "j", "a", "p", "a", "n", ".", "j", "p">>,
        <<"b", "l", "o", "o", "m", "b", "e", "r", "g", ".", "c", "o", ".", "j", "p">>,
        <<"m", "o", "t", "o", "r", "-", "f", "a", "n", ".", "j", "p">>,
        <<"y", "o", "u", "n", "g", "-", "m", "a", "c", "h", "i", "n", "e", ".", "c", "o", "m">>,
        <<"a", "s", "-", "w", "e", "b", ".", "j", "p">>,
        <<"w", "e", "b", "c", "g", ".", "n", "e", "t">>,
        <<"b", "e", "s", "t", "c", "a", "r", "w", "e", "b", ".", "j", "p">>  >>

NameMapNames ==
    <<  <<"re", "su", "po", "n_", "su", "fullparen", "R", "e", "s", "p", "o", "n", "s", "e",
          ".", "j", "p", "fullparen_close">>,
        <<"ni", "yu", "-", "zu", "u", "i", "-", "ku", "nichi", "hon", "ban">>,
        <<"bu", "ru", "-", "mu", "ba", "-", "gu">>,
        <<"M", "o", "t", "o", "r", "-", "F", "a", "n">>,
        <<"ya", "n_", "gu", "ma", "shi", "n_">>,
        <<"a", "u", "t", "o", "s", "p", "o", "r", "t", " ", "w", "e", "b">>,
        <<"W", "e", "b", "C", "G">>,
        <<"be", "su", "to", "ka", "-", "W", "e", "b">>  >>

\* parts = host.split("."); base = parts[-2] if len(parts) >= 2 else host
SecondLevel(host) ==
    LET last == FindBack(host, {"."}, Len(host))
        prev == FindBack(host, {"."}, last - 1)
    IN  IF last = 0 THEN host ELSE SubSeq(host, prev + 1, last - 1)

\* str.capitalize() of a lower-case text
Capitalize(t) ==
    IF t = <<>> THEN t
    ELSE IF \E k \in 1..Len(LowerCase) : LowerCase[k] = t[1]
    THEN <<UpperCase[CHOOSE k \in 1..Len(LowerCase) : LowerCase[k] = t[1]]>> \o Tail(t)
    ELSE t

HostName(netloc) ==
    LET host == SubSeq(netloc, 1, Find(netloc, {":"}, 1) - 1)
    IN  IF StartsWith(host, <<"w", "w", "w", ".">>) THEN SubSeq(host, 5, Len(host)) ELSE host

publisher_from_url(url) ==
    LET parsed == Netloc(url)
        netloc == LowerText(parsed.netloc)
        host == HostName(netloc)
    IN  IF ~parsed.ok THEN <<>>
        ELSE IF netloc = <<>> THEN <<>>
        ELSE IF EndsWith(netloc, <<"m", "s", "n", ".", "c", "o", "m">>) THEN <<"M", "S", "N">>
        ELSE IF Contains(netloc, <<"n", "e", "w", "s", ".", "y", "a", "h", "o", "o", ".", "c", "o", ".", "j", "p">>)
        THEN <<"Y", "a", "h", "o", "o">>
        ELSE IF \E k \in 1..Len(NameMapHosts) : NameMapHosts[k] = host
        THEN NameMapNames[CHOOSE k \in 1..Len(NameMapHosts) : NameMapHosts[k] = host]
        ELSE Capitalize(ReplaceChars(SecondLevel(host), {"-", "_"}))

----------------------------------------------------------------------------
(* clean_source_text applied to a text, and again to its own result *)

MaxCleanLen == 6

CleanInputs ==
    LET CleanAlphabet == {"A", "1", " ", "fun", "mae", "tei", "kyou"}
    IN  SeqsUpTo(CleanAlphabet, MaxCleanLen)

CleanOnce ==
    /\ cstage = 0
    /\ once' = clean_source_text(clean_raw)
    /\ cstage' = 1
    /\ UNCHANGED <<clean_raw, twice, wvars, tvars, xvars>>

CleanAgain ==
    /\ cstage = 1
    /\ twice' = clean_source_text(once)
    /\ cstage' = 2
    /\ UNCHANGED <<clean_raw, once, wvars, tvars, xvars>>

InitClean ==
    /\ InitCommon /\ pc = "idle" /\ TimeIdle /\ ExtractIdle
    /\ clean_raw \in CleanInputs
    /\ once = <<>> /\ twice = <<>> /\ cstage = 0

NextClean == CleanOnce \/ CleanAgain

SpecClean == InitClean /\ [][NextClean]_vars

----------------------------------------------------------------------------
(* parse_relative_time applied to a label and a reference time *)

MaxLabelLen == 5

TimeLabels ==
    LET LabelAlphabet == {"0", "1", "2", "4", "6", ":"}
        SampleLabels ==
            {  <<" ", "7", ":", "1", "5", " ">>,
               <<"5", "fun", "mae">>,
               <<"3", " ", "ji", "kan", "mae">>,
               <<"2", "nichi", "mae">>,
               <<"fun", "mae">>,
               <<"2", " ", "H", "o", "u", "r", "s">>,
               <<"2", "gatsu", "2", "9", "nichi">>,
               <<"1", "2", "gatsu", "3", "1", "nichi">>,
               <<"2", "0", "2", "4", "/", "2", "/", "2", "9">>,
               <<"2", "0", "2", "3", "/", "2", "/", "2", "9">>,
               <<"1", "2", ":", "3", "0", " ", "J", "S", "T">>  }
    IN  SeqsUpTo(LabelAlphabet, MaxLabelLen) \cup SampleLabels

\* 2024-03-01 00:00:00 and 00:05:30, 2024-01-01 12:34:56, 2023-12-31 23:59:59
BaseTimes ==
    {  DateTime(2024, 3, 1, 0, 0),
       DateTime(2024, 3, 1, 0, 5) + 30,
       DateTime(2024, 1, 1, 12, 34) + 56,
       DateTime(2023, 12, 31, 23, 59) + 59  }

ParseTime ==
    /\ tstage = 0
    /\ t_result' = parse_relative_time(t_label, t_base)
    /\ tstage' = 1
    /\ UNCHANGED <<t_label, t_base, wvars, cvars, xvars>>

InitTime ==
    /\ InitCommon /\ pc = "idle" /\ CleanIdle /\ ExtractIdle
    /\ t_label \in TimeLabels
    /\ t_base \in BaseTimes
    /\ t_result = <<>>
    /\ tstage = 0

SpecTime == InitTime /\ [][ParseTime]_vars

----------------------------------------------------------------------------
(* The three extractors.  An article of the page is given by what the      *)
(* selectors of the loop body find in it; each loop body is one step.      *)

\* an element or attribute a selector may or may not find, with its text
None == [has |-> FALSE, text |-> <<>>]

Some(text) == [has |-> TRUE, text |-> text]

\* el.get_text(strip=True) if el else ""
TextOf(el) == IF el.has THEN Strip(el.text) ELSE <<>>

\* the index of the first element of els that is there, 0 if none is
FirstPresent(els) ==
    IF \E k \in 1..Len(els) : els[k].has
    THEN CHOOSE k \in 1..Len(els) : els[k].has /\ \A j \in 1..(k - 1) : ~els[j].has
    ELSE 0

\* x, without the "or label"
OrLabelDropped(x, label) == x

\* x or label
OrLabel(x, label) == IF x = <<>> THEN label ELSE x

\* What the loop body does with one article: appends a record, reaches
\* continue through a guard, or raises into the bare except.
Skipped ==
    [kind |-> "skipped",
     rec |-> [title |-> <<>>, url |-> <<>>, published_at |-> <<>>, publisher |-> <<>>]]

Raised == [Skipped EXCEPT !.kind = "raised"]

Record(title, url, pub_date, source) ==
    [kind |-> "record",
     rec |-> [title |-> title, url |-> url, published_at |-> pub_date, publisher |-> source]]

\* an except branch that would start data afresh
CollectOrReset(data_so_far, outcome) ==
    IF outcome.kind = "record" THEN Append(data_so_far, outcome.rec) ELSE <<>>

\* data.append(...) as the last statement of the try body; except: continue
Collect(data_so_far, outcome) ==
    IF outcome.kind = "record" THEN Append(data_so_far, outcome.rec) ELSE data_so_far

\* resolve_final_url(url); res is what requests.get does: "ok" with the
\* final URL, "not_ok", or "raises"
resolve_final_url(url, res) ==
    LET parsed == Netloc(url)
    IN  IF /\ parsed.ok
           /\ Contains(parsed.netloc, <<"n", "e", "w", "s", ".", "g", "o", "o", "g", "l", "e", ".", "c", "o", "m">>)
           /\ res.kind = "ok"
        THEN res.url
        ELSE url

GoogleSource(els, final_url) ==
    LET k == FirstPresent(els)
        source == IF k = 0 THEN <<>> ELSE TextOf(els[k])
    IN  IF source = <<>>
        THEN OrLabel(publisher_from_url(final_url), <<"G", "o", "o", "g", "l", "e">>)
        ELSE source

\* the body of the loop of get_google_news_with_selenium
GoogleOutcome(raw) ==
    IF raw.fault THEN Raised
    ELSE IF ~raw.a_tag \/ ~raw.time_tag THEN Skipped
    ELSE LET title == Strip(raw.title)
             href == IF raw.href.has THEN raw.href.text ELSE <<>>
             url == IF StartsWith(href, <<".", "/">>) THEN <<"h", "t", "t", "p", "s", ":", "/", "/", "n", "e", "w", "s", ".", "g", "o", "o", "g", "l", "e", ".", "c", "o", "m">>
                        \o Tail(href)
                    ELSE href
             final_url == resolve_final_url(url, raw.res)
             source == GoogleSource(raw.els, final_url)
             parsed == IF raw.datetime.has THEN StrptimeIso(raw.datetime.text) ELSE Fail
         IN  IF ~parsed.ok THEN Raised
             ELSE Record(title, final_url, format_datetime(parsed.dt + 9 * 3600), source)

YahooPubDate(date_str) ==
    IF date_str = <<>> THEN Sentinel
    ELSE LET ds == Strip(Sub("weekday_parens", <<>>, date_str))
             parsed == StrptimeYMDHM(ds)
         IN  IF parsed.ok THEN format_datetime(parsed.dt) ELSE ds

YahooCandidate(el) ==
    Strip(Sub("parens", <<>>, Sub("yahoo_datetime", <<>>, TextOf(el))))

\* txt and not txt.isdigit() and any(ch.isalpha() or ch is kana or kanji)
YahooAccepts(txt) ==
    /\ txt # <<>>
    /\ \E i \in 1..Len(txt) : ~IsDigit(txt[i])
    /\ \E i \in 1..Len(txt) : txt[i] \notin (Digits \cup Spaces \cup Punct \cup {"_"})

YahooSource(els, url) ==
    LET good == {k \in 1..Len(els) : els[k].has /\ YahooAccepts(YahooCandidate(els[k]))}
    IN  IF good # {}
        THEN YahooCandidate(els[CHOOSE k \in good : \A j \in good : k <= j])
        ELSE OrLabel(publisher_from_url(url), <<"Y", "a", "h", "o", "o">>)

\* the body of the loop of get_yahoo_news_with_selenium
YahooOutcome(raw) ==
    IF raw.fault THEN Raised
    ELSE LET title == TextOf(raw.title_tag)
             url == IF raw.link_tag.has THEN raw.link_tag.text ELSE <<>>
             date_str == TextOf(raw.time_tag)
         IN  Record(title, url, YahooPubDate(date_str), YahooSource(raw.els, url))

\* the label of the first [aria-label] element that TIME_RE finds a time in
MsnAriaLabel(arias) ==
    LET good == {k \in 1..Len(arias) : TimeReSearch(Strip(arias[k]))}
    IN  IF good = {} THEN <<>> ELSE Strip(arias[CHOOSE k \in good : \A j \in good : k <= j])

\* the first time element with a relative time as text or a datetime attribute
MsnTimeLabel(times) ==
    LET good == {k \in 1..Len(times) :
                    \/ TimeReSearch(Strip(times[k].text))
                    \/ times[k].datetime # <<>>}
    IN  IF good = {} THEN <<>>
        ELSE LET el == times[CHOOSE k \in good : \A j \in good : k <= j]
             IN  IF TimeReSearch(Strip(el.text)) THEN Strip(el.text) ELSE el.datetime

\* if not label and parent: ...
OrTimeLabel(label, times) == IF label # <<>> THEN label ELSE MsnTimeLabel(times)

MsnLabel(raw) ==
    IF ~raw.parent THEN <<>> ELSE OrTimeLabel(MsnAriaLabel(raw.arias), raw.times)

\* dt = strptime(label, ...) + 9 hours; pub_date = format_datetime(dt); except: pass
MsnIsoDate(iso) == IF iso.ok THEN format_datetime(iso.dt + 9 * 3600) ELSE Sentinel

MsnLabelDate(label, now) ==
    IF label = <<>> THEN Sentinel
    ELSE IF Contains(label, <<"T">>) /\ Contains(label, <<":">>) /\ EndsWith(label, <<"Z">>)
    THEN MsnIsoDate(StrptimeIso(label))
    ELSE parse_relative_time(label, now)

\* if pub_date == sentinel: pub_date = get_last_modified_datetime(href)
OrLastModified(pub_date, head) ==
    IF pub_date = Sentinel THEN get_last_modified_datetime(head) ELSE pub_date

MsnPubDate(label, now, head) == OrLastModified(MsnLabelDate(label, now), head)

MsnCandidates(cands) ==
    [k \in 1..Len(cands) |-> IF cands[k].has THEN clean_source_text(TextOf(cands[k])) ELSE <<>>]

\* the first candidate that is there, is not empty once cleaned and is not
\* a time; source is left as it is when there is none
MsnFirstCandidate(source, cleaned) ==
    LET good == {k \in 1..Len(cleaned) : cleaned[k] # <<>> /\ ~is_timeish(cleaned[k])}
    IN  IF good = {} THEN source ELSE cleaned[CHOOSE k \in good : \A j \in good : k <= j]

\* if (not source) and parent: ...
OrCandidate(source, parent, cands) ==
    IF source = <<>> /\ parent THEN MsnFirstCandidate(source, MsnCandidates(cands)) ELSE source

\* if (not source) or is_timeish(source): source = publisher_from_url(href) or "MSN"
OrPublisher(source, href) ==
    IF source = <<>> \/ is_timeish(source)
    THEN OrLabel(publisher_from_url(href), <<"M", "S", "N">>)
    ELSE source

MsnSource(raw, href) ==
    OrPublisher(OrCandidate(clean_source_text(IF raw.parent THEN TextOf(raw.s_el) ELSE <<>>), raw.parent, raw.cands), href)

\* the body of the loop of get_msn_news_with_selenium
MsnOutcome(raw, now) ==
    IF raw.fault THEN Raised
    ELSE LET title == Strip(IF raw.data_title.has /\ raw.data_title.text # <<>>
                            THEN raw.data_title.text ELSE Strip(raw.text))
             href == IF raw.href.has THEN raw.href.text ELSE <<>>
         IN  IF title = <<>> \/ href = <<>> THEN Skipped
             ELSE Record(title, href, MsnPubDate(MsnLabel(raw), now, raw.head), MsnSource(raw, href))

----------------------------------------------------------------------------
(* The pages the extractors are run on *)

MaxArticles == 2

GoogleRaws ==
    LET Responses ==
            {  [kind |-> "ok", url |-> <<"h", "t", "t", "p", "s", ":", "/", "/", "w", "w", "w", ".", "a", "s", "a", "h", "i", ".", "c", "o", "m", "/", "x">>],
               [kind |-> "ok", url |-> <<"h", "t", "t", "p", "s", ":", "/", "/", "-", ".", "c", "o", "m", "/">>],
               [kind |-> "not_ok", url |-> <<>>],
               [kind |-> "raises", url |-> <<>>]  }
        GoogleArticle ==
            [fault |-> FALSE, a_tag |-> TRUE, time_tag |-> TRUE, title |-> <<" ", "t", " ">>,
             href |-> Some(<<".", "/", "a">>), res |-> [kind |-> "not_ok", url |-> <<>>],
             els |-> <<None, None, None>>, datetime |-> Some(<<"2", "0", "2", "4", "-", "0", "2", "-", "2", "9", "T", "1", "5", ":", "3", "0", ":", "0", "0", "Z">>)]
        GoogleHrefs == {None, Some(<<".", "/", "a">>), Some(<<"h", "t", "t", "p", "s", ":", "/", "/", "r", "e", "s", "p", "o", "n", "s", "e", ".", "j", "p", "/", "a">>), Some(<<"f", "o", "o">>)}
        GoogleEls ==
            {  <<None, None, None>>,
               <<Some(<<" ">>), Some(<<"P">>), None>>,
               <<None, Some(<<"Q">>), None>>,
               <<None, None, Some(<<" ", "R", " ">>)>>  }
        GoogleDatetimes == {None, Some(<<"2", "0", "2", "4", "-", "0", "2", "-", "2", "9", "T", "1", "5", ":", "3", "0", ":", "0", "0", "Z">>), Some(<<"2", "0", "2", "4", "-", "0", "2", "-", "3", "0", "T", "1", "5", ":", "3", "0", ":", "0", "0", "Z">>), Some(<<"3", "ji", "kan", "mae">>)}
    IN  {  [GoogleArticle EXCEPT !.fault = TRUE],
           [GoogleArticle EXCEPT !.a_tag = FALSE],
           [GoogleArticle EXCEPT !.time_tag = FALSE]  }
        \cup {[GoogleArticle EXCEPT !.href = h, !.res = r, !.els = e] :
                  h \in GoogleHrefs, r \in Responses, e \in GoogleEls}
        \cup {[GoogleArticle EXCEPT !.href = h, !.datetime = d] :
                  h \in GoogleHrefs, d \in GoogleDatetimes}

YahooRaws ==
    LET YahooArticle ==
            [fault |-> FALSE, title_tag |-> Some(<<"t">>), link_tag |-> Some(<<"h", "t", "t", "p", "s", ":", "/", "/", "n", "e", "w", "s", ".", "y", "a", "h", "o", "o", ".", "c", "o", ".", "j", "p", "/", "a">>),
             time_tag |-> Some(<<"2", "0", "2", "4", "/", "3", "/", "1", " ", "9", ":", "0", "5">>), els |-> <<None, None, None, None>>]
        YahooLinks == {None, Some(<<"h", "t", "t", "p", "s", ":", "/", "/", "n", "e", "w", "s", ".", "y", "a", "h", "o", "o", ".", "c", "o", ".", "j", "p", "/", "a">>), Some(<<"h", "t", "t", "p", "s", ":", "/", "/", "r", "e", "s", "p", "o", "n", "s", "e", ".", "j", "p", "/", "a">>), Some(<<"h", "t", "t", "p", "s", ":", "/", "/", "-", ".", "c", "o", "m", "/">>), Some(<<"f", "o", "o">>)}
        YahooTimes == {None, Some(<<"2", "0", "2", "4", "/", "3", "/", "1", " ", "9", ":", "0", "5">>), Some(<<"2", "0", "2", "4", "/", "3", "/", "1", "(", "kin", ")", " ", "9", ":", "0", "5">>), Some(<<"3", "/", "1", "(", "kin", ")", " ", "9", ":", "0", "5">>), Some(<<"3", "ji", "kan", "mae">>), Some(<<"(", "gatsu", ")">>)}
        YahooEls ==
            {  <<None, None, None, None>>,
               <<Some(<<"C", "a", "r", " ", "W", "a", "t", "c", "h">>), None, None, None>>,
               <<None, Some(<<"2", "0", "2", "4", "/", "3", "/", "1", " ", "0", "9", ":", "0", "5">>), Some(<<"1", "2", "3">>), Some(<<"W", "e", "b", " ", "3", "/", "1", "(", "kin", ")", " ", "9", ":", "0", "5">>)>>,
               <<None, None, Some(<<"(", "P", "R", ")">>), Some(<<"-", " ", "1", "2", ":", "3", "0">>)>>  }
    IN  {  [YahooArticle EXCEPT !.fault = TRUE],
           [YahooArticle EXCEPT !.title_tag = None]  }
        \cup {[YahooArticle EXCEPT !.link_tag = l, !.els = e] : l \in YahooLinks, e \in YahooEls}
        \cup {[YahooArticle EXCEPT !.link_tag = l, !.time_tag = d] : l \in YahooLinks, d \in YahooTimes}

MsnRaws ==
    LET \* 2024-02-29 23:10:00 UTC
        LastModified == [ok |-> TRUE, dt |-> DateTime(2024, 2, 29, 23, 10)]
        MsnArticle ==
            [fault |-> FALSE, data_title |-> Some(<<"t">>), text |-> <<>>, href |-> Some(<<"h", "t", "t", "p", "s", ":", "/", "/", "w", "w", "w", ".", "m", "s", "n", ".", "c", "o", "m", "/", "a">>),
             parent |-> TRUE, s_el |-> None, arias |-> <<>>, times |-> <<>>,
             cands |-> <<None, None, None, None, None>>, head |-> Fail]
        MsnHrefs == {Some(<<"h", "t", "t", "p", "s", ":", "/", "/", "w", "w", "w", ".", "m", "s", "n", ".", "c", "o", "m", "/", "a">>), Some(<<"h", "t", "t", "p", "s", ":", "/", "/", "r", "e", "s", "p", "o", "n", "s", "e", ".", "j", "p", "/", "a">>), Some(<<"h", "t", "t", "p", "s", ":", "/", "/", "-", ".", "c", "o", "m", "/">>), Some(<<"h", "t", "t", "p", "s", ":", "/", "/", "a", ".", ".", "c", "o", "m", "/">>), Some(<<"f", "o", "o">>)}
        MsnSourceEls == {None, Some(<<"M", "e", "r", "k", "m", "a", "l", " ", "1", " ", "ji", "kan">>), Some(<<"M", "S", "N", " ", "ni", "yo", "ru", "hai", "shin", " ", "1", " ", "fun">>), Some(<<"4", " ", "nichi">>), Some(<<"A", "1", "fun", "1", "fun">>), Some(<<" ", "nakaguro", " ">>)}
        MsnCands ==
            {  <<None, None, None, None, None>>,
               <<Some(<<"5", " ", "fun", "mae">>), None, Some(<<"C", "a", "r", "nakaguro">>), None, None>>,
               <<None, Some(<<"o", "n", " ", "M", "S", "N">>), None, None, Some(<<"tei", "kyou", ":", " ", "B", " ", "2", "nichi", "mae">>)>>  }
        MsnArias == {<<>>, <<<<"x">>, <<"3", " ", "ji", "kan", "mae">>>>, <<<<" ", "1", "0", "fun", "mae", " ">>>>}
        MsnTimes ==
            {  <<>>,
               <<[text |-> <<"1", "2", ":", "3", "0">>, datetime |-> <<>>]>>,
               <<[text |-> <<>>, datetime |-> <<>>], [text |-> <<>>, datetime |-> <<"2", "0", "2", "4", "-", "0", "2", "-", "2", "9", "T", "1", "5", ":", "3", "0", ":", "0", "0", "Z">>]>>,
               <<[text |-> <<>>, datetime |-> <<"2", "0", "2", "4", "-", "0", "2", "-", "3", "0", "T", "1", "5", ":", "3", "0", ":", "0", "0", "Z">>], [text |-> <<"3", " ", "ji", "kan", "mae">>, datetime |-> <<>>]>>,
               <<[text |-> <<"2", "gatsu", "2", "9", "nichi">>, datetime |-> <<"2", "0", "2", "4", "/", "2", "/", "2", "9">>]>>,
               <<[text |-> <<>>, datetime |-> <<"2", "0", "2", "4", "/", "2", "/", "2", "9">>]>>  }
    IN  {  [MsnArticle EXCEPT !.fault = TRUE],
           [MsnArticle EXCEPT !.href = None],
           [MsnArticle EXCEPT !.data_title = None],
           [MsnArticle EXCEPT !.data_title = Some(<<>>), !.text = <<" ", "u", " ">>],
           [MsnArticle EXCEPT !.parent = FALSE, !.s_el = Some(<<"M", "e", "r", "k", "m", "a", "l", " ", "1", " ", "ji", "kan">>), !.arias = <<<<" ", "1", "0", "fun", "mae", " ">>>>]  }
        \cup {[MsnArticle EXCEPT !.href = h, !.s_el = s, !.cands = c] :
                  h \in MsnHrefs, s \in MsnSourceEls, c \in MsnCands}
        \cup {[MsnArticle EXCEPT !.arias = a, !.times = t, !.head = m] :
                  a \in MsnArias, t \in MsnTimes, m \in {Fail, LastModified}}

\* now = utcnow() + 9 hours: 2024-03-01 00:05:30 and 2024-01-01 12:34:56
ExtractNows == {DateTime(2024, 3, 1, 0, 5) + 30, DateTime(2024, 1, 1, 12, 34) + 56}

GoogleOutcomes == [raw \in GoogleRaws |-> GoogleOutcome(raw)]

YahooOutcomes == [raw \in YahooRaws |-> YahooOutcome(raw)]

MsnOutcomes == [now \in ExtractNows |-> [raw \in MsnRaws |-> MsnOutcome(raw, now)]]

\* one pass of the loop body over the article raw
Handle(raw, outcome) ==
    /\ cur' = raw
    /\ hist' = Append(hist, outcome)
    /\ data' = Collect(data, outcome)

GoogleLoop ==
    /\ x_site = "Google" /\ ~returned /\ Len(hist) < x_total
    /\ \E raw \in GoogleRaws : Handle(raw, GoogleOutcomes[raw])
    /\ UNCHANGED <<x_site, x_now, x_total, returned, wvars, cvars, tvars>>

YahooLoop ==
    /\ x_site = "Yahoo" /\ ~returned /\ Len(hist) < x_total
    /\ \E raw \in YahooRaws : Handle(raw, YahooOutcomes[raw])
    /\ UNCHANGED <<x_site, x_now, x_total, returned, wvars, cvars, tvars>>

MsnLoop ==
    /\ x_site = "MSN" /\ ~returned /\ Len(hist) < x_total
    /\ \E raw \in MsnRaws : Handle(raw, MsnOutcomes[x_now][raw])
    /\ UNCHANGED <<x_site, x_now, x_total, returned, wvars, cvars, tvars>>

\* return data, after the last article
ReturnData ==
    /\ x_site \in WorksheetNames /\ ~returned /\ Len(hist) = x_total
    /\ returned' = TRUE
    /\ UNCHANGED <<x_site, x_now, x_total, cur, hist, data, wvars, cvars, tvars>>

InitExtract ==
    /\ InitCommon /\ pc = "idle" /\ CleanIdle /\ TimeIdle
    /\ x_site \in WorksheetNames
    /\ x_now \in (IF x_site = "MSN" THEN ExtractNows ELSE {0})
    /\ x_total \in 0..MaxArticles
    /\ cur = [none |-> TRUE]
    /\ hist = <<>>
    /\ data = <<>>
    /\ returned = FALSE

NextExtract ==
    \/ GoogleLoop
    \/ YahooLoop
    \/ MsnLoop
    \/ ReturnData

SpecExtract == InitExtract /\ [][NextExtract]_vars

----------------------------------------------------------------------------
(* Claims about write_to_spreadsheet and __main__ *)

\* The data rows of a worksheet: its rows other than the header row.
DataRows(rows) == SelectSeq(rows, LAMBDA r : r # HeaderRow)

UrlsOf(rows) == {rows[i][2] : i \in 1..Len(rows)}

\* The indices of the candidates whose URL is not in urls, and the k-th of them.
FreshIdx(arts, urls) == {i \in 1..Len(arts) : arts[i].url \notin urls}

KthOf(idx, k) == CHOOSE i \in idx : Cardinality({j \in idx : j < i}) = k - 1

\* rows is the in-order subsequence of arts at the indices idx, as rows.
IsRowsAt(rows, arts, idx) ==
    /\ Len(rows) = Cardinality(idx)
    /\ \A k \in 1..Len(rows) : rows[k] = RowOf(arts[KthOf(idx, k)])

\* C1: a call whose 5 attempts all end in a store API error ends by raising:
\* it is never still running or returned after the fifth failure, and no
\* sixth attempt is made.
C1_FiveFailuresRaise ==
    /\ attempt <= 5
    /\ (attempt = 5) <=> (status = "raised")

C1_Witness == status = "raised" /\ attempt = 5 /\ calls = 1

\* C2: when fewer than 5 attempts fail and the next succeeds, the store
\* holds its data rows from before the call plus exactly the candidates
\* whose URL was not in the store before the call, each once, in order.
C2_RetryThenSuccessAppendsNewOnce ==
    status = "returned" =>
        /\ attempt < 5
        /\ \E added \in SeqsUpTo({RowOf(a) : a \in ArticleSet}, Len(articles)) :
              /\ IsRowsAt(added, articles, FreshIdx(articles, UrlsOf(DataRows(pre))))
              /\ DataRows(store[worksheet_name].rows) = DataRows(pre) \o added

\* C3: the rows one successful attempt appends are exactly the candidates
\* whose URL is not among the URLs read from the store, in batch order, a
\* URL occurring twice in the batch appended twice; the URLs read are those
\* of the rows the store held below its first row.
C3_AppendedIsFilteredSubsequence ==
    status = "returned" =>
        LET rows == store[worksheet_name].rows
            before == SubSeq(rows, 1, Len(rows) - Len(new_rows))
        IN  /\ Len(new_rows) <= Len(rows)
            /\ rows = before \o new_rows
            /\ existing_urls = {before[i][2] : i \in 2..Len(before)}
            /\ IsRowsAt(new_rows, articles, FreshIdx(articles, existing_urls))

C3_Witness ==
    /\ status = "returned"
    /\ Len(new_rows) = 2
    /\ new_rows[1][2] = new_rows[2][2]
    /\ existing_urls # {}

\* C10: a call that repeats the batch of the previous call that returned
\* for the same destination appends no rows.
C10_RepeatedWriteAddsNothing ==
    (status = "returned" /\ prev_same) =>
        /\ new_rows = <<>>
        /\ store[worksheet_name].rows = pre

\* C9: the sites run in the order Google, Yahoo, MSN, a site's write
\* ending before the next site's fetch; a write that raises ends the
\* process as failed, and no step changes a worksheet other than the
\* destination of the running call.
SiteNo(site) == CHOOSE i \in 1..3 : Sites[i] = site

EventNo(e) == CASE e[1] = "fetch" -> 1 [] e[1] = "write_begin" -> 2 [] OTHER -> 3

C9_LogInOrder ==
    /\ \A i, j \in 1..Len(log) :
          i < j => \/ SiteNo(log[i][2]) < SiteNo(log[j][2])
                   \/ SiteNo(log[i][2]) = SiteNo(log[j][2]) /\ EventNo(log[i]) < EventNo(log[j])
    /\ \A i \in 1..Len(log) :
          /\ log[i][1] = "fetch" =>
                \A s \in 1..(SiteNo(log[i][2]) - 1) :
                    \E k \in 1..(i - 1) : log[k] = <<"fetch", Sites[s]>>
          /\ (log[i][1] = "write_begin" /\ i < Len(log)) => log[i + 1] = <<"write_end", log[i][2]>>
                                                         \/ (log[i + 1] = <<"write_raise", log[i][2]>> /\ i + 1 = Len(log))
          /\ log[i][1] = "write_raise" => i = Len(log) /\ pc = "failed"
    /\ (pc = "failed") <=> (status = "raised")
    /\ pc = "failed" => ~ENABLED Next
    /\ status = "running" <=> (Len(log) > 0 /\ log[Len(log)][1] = "write_begin")

C9_OnlyDestinationChanges ==
    \A n \in WorksheetNames :
        store'[n] # store[n] => (status = "running" /\ n = worksheet_name /\ pc # "harness")

C9_SequentialSites == []C9_LogInOrder /\ [][C9_OnlyDestinationChanges]_vars

C9_Witness ==
    /\ pc = "failed"
    /\ worksheet_name = "MSN"
    /\ Len(store["Google"].rows) > 1
    /\ Len(store["Yahoo"].rows) > 1

\* C6: clean_source_text is idempotent: cleaning a cleaned text changes
\* nothing.
C6_CleanIdempotent == cstage = 2 => twice = once

\* A text of the form YYYY/MM/DD HH:MM
IsTimestamp(t) ==
    /\ Len(t) = 16
    /\ t[5] = "/" /\ t[8] = "/" /\ t[11] = " " /\ t[14] = ":"
    /\ \A i \in (1..16) \ {5, 8, 11, 14} : t[i] \in Digits
    /\ IntOf(SubSeq(t, 6, 7)) \in 1..12
    /\ IntOf(SubSeq(t, 9, 10)) \in 1..31
    /\ IntOf(SubSeq(t, 12, 13)) \in 0..23
    /\ IntOf(SubSeq(t, 15, 16)) \in 0..59

\* The time a text YYYY/MM/DD HH:MM names, in seconds
TimeOf(t) ==
    DaysFromCivil(IntOf(SubSeq(t, 1, 4)), IntOf(SubSeq(t, 6, 7)), IntOf(SubSeq(t, 9, 10))) * 86400
    + IntOf(SubSeq(t, 12, 13)) * 3600 + IntOf(SubSeq(t, 15, 16)) * 60

\* A bare H:MM label: one or two digits, a colon, two digits, a time of day
BareHM(label) ==
    LET l == Strip(label)
    IN  /\ Len(l) \in {4, 5}
        /\ l[Len(l) - 2] = ":"
        /\ \A i \in (1..Len(l)) \ {Len(l) - 2} : l[i] \in Digits
        /\ IntOf(SubSeq(l, 1, Len(l) - 3)) <= 23
        /\ IntOf(SubSeq(l, Len(l) - 1, Len(l))) <= 59

ClockOf(label) ==
    LET l == Strip(label)
    IN  IntOf(SubSeq(l, 1, Len(l) - 3)) * 3600 + IntOf(SubSeq(l, Len(l) - 1, Len(l))) * 60

TodayAt(label, base) == (base \div 86400) * 86400 + ClockOf(label)

\* C7: a bare H:MM label gives that time on the date of the reference time,
\* moved back exactly one day when and only when it would be later than the
\* reference time; the result is never later than the reference time and
\* never more than 24 hours before it.
C7_BareTimeRollsBackOneDay ==
    (tstage = 1 /\ BareHM(t_label)) =>
        /\ IsTimestamp(t_result)
        /\ TimeOf(t_result) \in {TodayAt(t_label, t_base), TodayAt(t_label, t_base) - 86400}
        /\ (TodayAt(t_label, t_base) > t_base) <=>
               (TimeOf(t_result) = TodayAt(t_label, t_base) - 86400)
        /\ TimeOf(t_result) <= t_base
        /\ t_base - TimeOf(t_result) <= 86400

C7_Witness ==
    /\ tstage = 1
    /\ BareHM(t_label)
    /\ TodayAt(t_label, t_base) > t_base
    /\ TimeOf(t_result) = TodayAt(t_label, t_base) - 86400

\* C4: in every record of every extractor published_at is a timestamp
\* YYYY/MM/DD HH:MM or the sentinel, never a raw label.
C4_PublishedAtFormattedOrSentinel ==
    \A i \in 1..Len(data) :
        IsTimestamp(data[i].published_at) \/ data[i].published_at = Sentinel

\* C5: in every record of every extractor publisher is not the empty text.
C5_PublisherNeverEmpty ==
    \A i \in 1..Len(data) : data[i].publisher # <<>>

\* an MSN article whose source block is only a time, with no other candidate
\* and a link without a host, is recorded under the site's own name
C5_Witness ==
    /\ x_site = "MSN"
    /\ hist # <<>> /\ hist[Len(hist)].kind = "record"
    /\ cur.s_el = Some(<<"4", " ", "nichi">>)
    /\ cur.href = Some(<<"f", "o", "o">>)
    /\ data[Len(data)].publisher = <<"M", "S", "N">>

RecordsOf(h) ==
    LET kept == SelectSeq(h, LAMBDA o : o.kind = "record")
    IN  [i \in 1..Len(kept) |-> kept[i].rec]

\* C8: an article whose handling raises contributes nothing and changes
\* nothing; the articles after it are still handled, and what is returned
\* is, in order, the records of the articles that did not fail.
C8_FailedArticleIsSkipped ==
    /\ data = RecordsOf(hist)
    /\ returned => Len(hist) = x_total

C8_Witness ==
    /\ returned
    /\ Len(hist) = 2
    /\ hist[1].kind = "record"
    /\ hist[2].kind = "raised"
    /\ data = <<hist[1].rec>>

====
